---- MODULE Spec2Model ----
(***************************************************************************)
(* A model of cozy (src/cozy.hpp): the flag registry of parser_t, the      *)
(* tokenizer detail::semantic_tokenize, the value binders                  *)
(* detail::builtin_parse / builtin_parse_container and the dispatch loop   *)
(* of parser_t::parse.                                                     *)
(*                                                                         *)
(* A string (std::string_view, std::string) is a sequence of one-character *)
(* strings: "--n=5" is <<"-","-","n","=","5">>.  Positions inside a string *)
(* are 0-based as in the source; sequences of tokens are 1-based.          *)
(***************************************************************************)
EXTENDS Integers, Sequences, FiniteSets, TLC

VARIABLES
    flag_info,  \* parser_t::flag_info: the registered flags, in registration order
    thrown,     \* the std::runtime_error a registration call left with, or NoError
    dest,       \* the caller-owned destinations the flags are bound to
    pc,         \* "setup": registering; "thrown": vflag threw; "parse": inside
                \* parse's loop; "done": parse returned
    args,       \* the span handed to parse
    dest0,      \* the destinations as they were when parse was entered
    tokens,     \* parse's local: the token texts
    kinds,      \* parse's local: the token kinds
    pos,        \* parse's locals kb and tb as a 1-based index into kinds / tokens
    parse_arg,  \* parse's local: 0 for nullptr, else the index in flag_info it points to
    remaining,  \* parse's local: the literals collected so far
    result,     \* what parse returned
    ub          \* what this build does on a call through the null parse_arg

vars == <<flag_info, thrown, dest, pc, args, dest0, tokens, kinds, pos,
          parse_arg, remaining, result, ub>>

----------------------------------------------------------------------------
(* Bounds of the model *)

\* longest argument vector drawn freely from ArgPool
MaxArgs == 2
\* longest value text v of the --n=v arguments
MaxValLen == 3
\* most entries a registry is grown to
MaxFlags == 2
\* longest name handed to vflag when names are drawn from all strings
MaxNameLen == 3
\* most occurrences of the multi-valued flag in the occurrence-list vectors
MaxOcc == 2
\* most characters c1..cn of a short-form cluster argument
MaxCluster == 3

----------------------------------------------------------------------------
(* std::string_view *)

\* std::string_view::npos: larger than every length
npos == 2^30

Min(a, b) == IF a < b THEN a ELSE b

\* s.starts_with(c)
starts_with(s, c) == Len(s) > 0 /\ s[1] = c

\* s.find(c): the 0-based position of the first c, or npos
find(s, c) ==
    IF \E i \in 1..Len(s) : s[i] = c
    THEN (CHOOSE i \in 1..Len(s) : s[i] = c /\ \A j \in 1..(i - 1) : s[j] # c) - 1
    ELSE npos

\* s.find_first_of(set): the 0-based position of the first character in set, or npos
find_first_of(s, set) ==
    IF \E i \in 1..Len(s) : s[i] \in set
    THEN (CHOOSE i \in 1..Len(s) : s[i] \in set /\ \A j \in 1..(i - 1) : s[j] \notin set) - 1
    ELSE npos

\* s.substr(p, count): count is cut to the characters there are
substr(s, p, count) ==
    LET n == IF count > Len(s) - p THEN Len(s) - p ELSE count
    IN  SubSeq(s, p + 1, p + n)

\* a string_view argument of a binder: null is data() == nullptr (a default
\* constructed view, the probe {}), otherwise chars is the text
NullView == [null |-> TRUE, chars |-> <<>>]
View(s) == [null |-> FALSE, chars |-> s]

----------------------------------------------------------------------------
(* Flag names *)

invalid_name(name) ==
    \/ ~starts_with(name, "-")
    \/ (Len(name) > 2 /\ name[2] # "-")
    \/ name = <<"-", "-">>
    \/ name = <<"-">>
    \/ find_first_of(name, {"=", " ", "\t", "\n"}) # npos

----------------------------------------------------------------------------
(* The tokenizer *)

token_kind_t == {"literal", "arg", "flag"}

\* n copies of x
Repeat(x, n) == [i \in 1..n |-> x]

\* the short-form loop: one flag token per character at 0-based positions j..end-1
RECURSIVE short_flags(_, _, _)
short_flags(token, j, end) ==
    IF j >= end THEN <<>>
    ELSE <<substr(token, j, 1)>> \o short_flags(token, j + 1, end)

\* is_literal without the test of the leading marker
is_literal_mut(token) == Len(token) < 2

\* line 184: the argument is no flag argument
is_literal(token) == ~starts_with(token, "-") \/ Len(token) < 2

\* line 191: the argument is the terminator
is_terminator(token) == token = <<"-", "-">>

\* flag_tokens without the loop over the characters of a short-form argument
flag_tokens_mut(token, equal_pos) ==
    IF token[2] = "-"
    THEN <<substr(token, 2, equal_pos - 2)>>
    ELSE <<substr(token, 1, Min(equal_pos, Len(token)) - 1)>>

\* lines 201-214: the flag tokens of a flag argument
flag_tokens(token, equal_pos) ==
    IF token[2] = "-"
    THEN <<substr(token, 2, equal_pos - 2)>>
    ELSE short_flags(token, 1, Min(equal_pos, Len(token)))

\* value_tokens with the value taken from the = on
value_tokens_mut(token, equal_pos) ==
    IF equal_pos # npos
    THEN <<substr(token, equal_pos, npos)>>
    ELSE <<>>

\* lines 216-220: the attached value of a flag argument, if it has one
value_tokens(token, equal_pos) ==
    IF equal_pos # npos
    THEN <<substr(token, equal_pos + 1, npos)>>
    ELSE <<>>

\* terminator_rest from the terminator itself on
terminator_rest_mut(a, i) == SubSeq(a, i, Len(a))

\* lines 193-196: what the terminator at args[i] appends
terminator_rest(a, i) == SubSeq(a, i + 1, Len(a))

\* the loop of semantic_tokenize from args[i] on (i is 1-based), ret = [tokens, kinds]
RECURSIVE tokenize_from(_, _, _)
tokenize_from(a, i, ret) ==
    IF i > Len(a) THEN ret
    ELSE
    LET token == a[i] IN
    IF is_literal(token)
    THEN tokenize_from(a, i + 1,
            [tokens |-> Append(ret.tokens, token),
             kinds  |-> Append(ret.kinds, "literal")])
    ELSE IF is_terminator(token)
    THEN [tokens |-> ret.tokens \o terminator_rest(a, i),
          kinds  |-> ret.kinds \o Repeat("literal", Len(terminator_rest(a, i)))]
    ELSE
    LET equal_pos == find(token, "=")
        flags == flag_tokens(token, equal_pos)
        value == value_tokens(token, equal_pos)
    IN  tokenize_from(a, i + 1,
            [tokens |-> ret.tokens \o flags \o value,
             kinds  |-> ret.kinds \o Repeat("flag", Len(flags))
                                  \o Repeat("arg", Len(value))])

semantic_tokenize(a) == tokenize_from(a, 1, [tokens |-> <<>>, kinds |-> <<>>])

----------------------------------------------------------------------------
(* The value binders *)

\* an error message: the format string without its placeholders, and its arguments
NoError == [msg |-> "", text |-> <<>>, type |-> ""]
Error(msg, text, type) == [msg |-> msg, text |-> text, type |-> type]

\* what a binder returns (expected<bool>) together with the destination's new value
Bound(value, target) == [ok |-> TRUE, value |-> value, error |-> NoError, target |-> target]
Unbound(error, target) == [ok |-> FALSE, value |-> FALSE, error |-> error, target |-> target]

DigitChars == <<"0", "1", "2", "3", "4", "5", "6", "7", "8", "9">>
is_digit(c) == \E i \in 1..10 : DigitChars[i] = c
digit_value(c) == (CHOOSE i \in 1..10 : DigitChars[i] = c) - 1

\* the number of digits of s from the 1-based index i on
RECURSIVE digit_run(_, _)
digit_run(s, i) ==
    IF i > Len(s) \/ ~is_digit(s[i]) THEN 0 ELSE 1 + digit_run(s, i + 1)

\* the value of a string of digits
RECURSIVE digits_value(_)
digits_value(s) ==
    IF s = <<>> THEN 0
    ELSE 10 * digits_value(SubSeq(s, 1, Len(s) - 1)) + digit_value(s[Len(s)])

\* the range of the integral destination type modelled, signed char
in_range(v) == v >= -(2^7) /\ v <= 2^7 - 1

\* std::from_chars(begin, end, value) for signed char: the longest prefix that is
\* an optional minus sign and digits; ptr is its 0-based end.  value is written
\* only when the prefix is there and in range.
from_chars(s, value) ==
    LET neg   == starts_with(s, "-")
        first == IF neg THEN 2 ELSE 1
        n     == digit_run(s, first)
        mag   == digits_value(SubSeq(s, first, first + n - 1))
        v     == IF neg THEN -mag ELSE mag
    IN  IF n = 0
        THEN [ptr |-> 0, ec |-> "invalid_argument", value |-> value]
        ELSE IF ~in_range(v)
        THEN [ptr |-> first - 1 + n, ec |-> "result_out_of_range", value |-> value]
        ELSE [ptr |-> first - 1 + n, ec |-> "", value |-> v]

\* builtin_parse_integral without the test that the whole view was consumed
builtin_parse_integral_mut(s, target) ==
    LET r == from_chars(s.chars, target)
    IN  IF r.ec # ""
        THEN Unbound(Error("cannot parse", s.chars, "signed char"), r.value)
        ELSE Bound(FALSE, r.value)

\* lines 62-65: what builtin_parse returns once from_chars has returned r
integral_checked(s, r) ==
    IF r.ec # "" \/ r.ptr # Len(s.chars)
    THEN Unbound(Error("cannot parse", s.chars, "signed char"), r.value)
    ELSE Bound(FALSE, r.value)

\* builtin_parse for an integral destination; target is *target before the call
builtin_parse_integral(s, target) == integral_checked(s, from_chars(s.chars, target))

true_sv == <<"t", "r", "u", "e">>
false_sv == <<"f", "a", "l", "s", "e">>

\* builtin_parse for a bool destination
builtin_parse_bool(s, target) ==
    IF s.null \/ s.chars = true_sv
    THEN Bound(FALSE, TRUE)
    ELSE IF s.chars = false_sv
    THEN Bound(FALSE, FALSE)
    ELSE Unbound(Error("cannot parse", s.chars, "bool"), target)

\* builtin_parse for a std::string destination
builtin_parse_string(s, target) == Bound(FALSE, s.chars)

\* builtin_parse for an element of type elem; v is the element before the call
builtin_parse(elem, s, v) ==
    CASE elem = "bool"        -> builtin_parse_bool(s, v)
      [] elem = "signed char" -> builtin_parse_integral(s, v)
      [] elem = "string"      -> builtin_parse_string(s, v)

\* push_back at the front
push_back_mut(target, v) == <<v>> \o target

\* the element parsed is appended to the container
push_back(target, v) == Append(target, v)

\* element_parsed returning false, as the other binders do
element_parsed_mut(target, r) ==
    IF ~r.ok THEN Unbound(r.error, target)
    ELSE Bound(FALSE, push_back(target, r.target))

\* lines 128-132: what builtin_parse_container does with r, the result of the
\* element's builtin_parse
element_parsed(target, r) ==
    IF ~r.ok THEN Unbound(r.error, target)
    ELSE Bound(TRUE, push_back(target, r.target))

\* builtin_parse_container for a std::vector<elem> destination: the element v is
\* a local that only a successful conversion gives a value
builtin_parse_container(elem, s, target) ==
    IF s.null THEN Bound(FALSE, target)
    ELSE element_parsed(target, builtin_parse(elem, s, IF elem = "string" THEN <<>> ELSE 0))

----------------------------------------------------------------------------
(* Destinations and parse_arg_t *)

\* the caller's variables: three bools, a signed char, a std::string and two vectors
Dests == {"va", "vb", "vc", "count", "name", "tags", "nums"}

\* the alternative of parse_arg_t::parseable_t that make_parse_arg(target) holds
target_type(t) ==
    CASE t \in {"va", "vb", "vc"} -> "bool"
      [] t = "count"              -> "signed char"
      [] t = "name"               -> "string"
      [] t = "tags"               -> "vector<string>"
      [] t = "nums"               -> "vector<signed char>"

\* parse_arg_t::kind()
kind(t) ==
    CASE target_type(t) = "bool" -> "boolean"
      [] target_type(t) \in {"vector<string>", "vector<signed char>"} -> "variable"
      [] OTHER -> "single"

\* parse_arg_t::operator(): std::visit of parse_visitor_t over the target
call(t, token, d) ==
    CASE target_type(t) = "vector<string>" -> builtin_parse_container("string", token, d[t])
      [] target_type(t) = "vector<signed char>" -> builtin_parse_container("signed char", token, d[t])
      [] OTHER -> builtin_parse(target_type(t), token, d[t])

----------------------------------------------------------------------------
(* The registry *)

\* flag_info_t without its help text
flag_info_t(name, t) == [name |-> name, target |-> t]

\* lines 551-554: the name without its markers
strip_markers(name) ==
    IF name[2] = "-" THEN substr(name, 2, npos) ELSE substr(name, 1, npos)

\* unguarded_vflag keeping the names of the registry distinct
unguarded_vflag_mut(reg, name, t) ==
    IF \E i \in 1..Len(reg) : reg[i].name = strip_markers(name)
    THEN reg
    ELSE Append(reg, flag_info_t(strip_markers(name), t))

\* parser_t::unguarded_vflag: the registry after the call
unguarded_vflag(reg, name, t) == Append(reg, flag_info_t(strip_markers(name), t))

\* find_if resolving to the entry registered last
find_if_mut(reg, token) ==
    IF \E i \in 1..Len(reg) : reg[i].name = token
    THEN CHOOSE i \in 1..Len(reg) :
            reg[i].name = token /\ \A j \in (i + 1)..Len(reg) : reg[j].name # token
    ELSE 0

\* lines 445-447: std::find_if over flag_info, 0 for flag_info.end()
find_if(reg, token) ==
    IF \E i \in 1..Len(reg) : reg[i].name = token
    THEN CHOOSE i \in 1..Len(reg) :
            reg[i].name = token /\ \A j \in 1..(i - 1) : reg[j].name # token
    ELSE 0

----------------------------------------------------------------------------
(* parser_t::parse *)

\* line 365
err_unknown == TRUE

\* what parse has returned: nothing yet, the remaining arguments, an error, or
\* the process has died in the call
NoResult == [kind |-> "none", value |-> <<>>, error |-> NoError]
Returned(v) == [kind |-> "value", value |-> v, error |-> NoError]
Failed(e) == [kind |-> "error", value |-> <<>>, error |-> e]
Crashed == [kind |-> "crash", value |-> <<>>, error |-> NoError]

\* what calling through the null parse_arg (undefined behaviour) may do, the
\* same at every such call of one build: end the process, or return as if
\* nothing had been bound
UBOutcomes == {"crash", "skip"}

\* lines 380, 452: the markers an error message puts before a stored name
dashes(token) == IF Len(token) > 1 THEN <<"-", "-">> ELSE <<"-">>

\* The locals of parse and the destinations, as one record F:
\*   [dest, pos, parse_arg, remaining, result]

\* lines 386-390: end_of_flag once (*parse_arg)({}) has returned r
probed(F, t, r) ==
    IF ~r.ok
    THEN [F EXCEPT !.dest[t] = r.target, !.result = Failed(r.error)]
    ELSE [F EXCEPT !.dest[t] = r.target, !.parse_arg = 0]

\* bound closing the flag whatever the binder returned
bound_mut(F, t, r) ==
    IF ~r.ok
    THEN [F EXCEPT !.dest[t] = r.target, !.result = Failed(r.error)]
    ELSE [F EXCEPT !.dest[t] = r.target, !.parse_arg = 0, !.pos = @ + 1]

\* lines 413-420 and 426-432: the loop body once (*parse_arg)(*tb) has returned r
bound(F, t, r) ==
    IF ~r.ok
    THEN [F EXCEPT !.dest[t] = r.target, !.result = Failed(r.error)]
    ELSE [F EXCEPT !.dest[t] = r.target,
                   !.parse_arg = IF r.value THEN @ ELSE 0,
                   !.pos = @ + 1]

\* boolean_closed dropping the literal
boolean_closed_mut(F, t, tok, r) ==
    [F EXCEPT !.dest[t] = r.target, !.parse_arg = 0, !.pos = @ + 1]

\* lines 407-409: the literal after a boolean flag, (*parse_arg)({}) having
\* returned r
boolean_closed(F, t, tok, r) ==
    [F EXCEPT !.dest[t] = r.target, !.parse_arg = 0,
              !.remaining = Append(@, tok), !.pos = @ + 1]

\* end_of_flag without the error for a single-value flag
end_of_flag_mut(reg, toks, F) ==
    LET t == reg[F.parse_arg].target
    IN  probed(F, t, call(t, NullView, F.dest))

\* the lambda end_of_flag, called with parse_arg # nullptr
end_of_flag(reg, toks, F) ==
    LET t == reg[F.parse_arg].target IN
    IF kind(t) = "single"
    THEN LET prevtoken == toks[F.pos - 1]
         IN  [F EXCEPT !.result =
                Failed(Error("missing value after", dashes(prevtoken) \o prevtoken, ""))]
    ELSE probed(F, t, call(t, NullView, F.dest))

\* case literal without the special case of a boolean flag
case_literal_mut(reg, toks, F) ==
    LET tok == toks[F.pos] IN
    IF F.parse_arg = 0
    THEN [F EXCEPT !.remaining = Append(@, tok), !.pos = @ + 1]
    ELSE
    LET t == reg[F.parse_arg].target
    IN  bound(F, t, call(t, View(tok), F.dest))

\* case token_kind_t::literal
case_literal(reg, toks, F) ==
    LET tok == toks[F.pos] IN
    IF F.parse_arg = 0
    THEN [F EXCEPT !.remaining = Append(@, tok), !.pos = @ + 1]
    ELSE
    LET t == reg[F.parse_arg].target IN
    IF kind(t) = "boolean"
    THEN boolean_closed(F, t, tok, call(t, NullView, F.dest))
    ELSE bound(F, t, call(t, View(tok), F.dest))

\* case token_kind_t::arg; u is what the build does when parse_arg is nullptr
case_arg(reg, toks, F, u) ==
    LET tok == toks[F.pos] IN
    IF F.parse_arg = 0
    THEN IF u = "crash"
         THEN [F EXCEPT !.result = Crashed]
         ELSE [F EXCEPT !.pos = @ + 1]
    ELSE
    LET t == reg[F.parse_arg].target
    IN  bound(F, t, call(t, View(tok), F.dest))

\* lines 444-464: the lookup of the flag token, after the open flag was closed
lookup_flag(reg, toks, F) ==
    LET token == toks[F.pos]
        it == find_if(reg, token)
    IN  IF it = 0
        THEN IF err_unknown
             THEN [F EXCEPT !.result =
                    Failed(Error("unknown flag", dashes(token) \o token, ""))]
             ELSE [F EXCEPT !.remaining = Append(@, token), !.pos = @ + 1]
        ELSE [F EXCEPT !.parse_arg = it, !.pos = @ + 1]

\* lines 440-464: the flag token once the open flag, if any, was closed into G
looked_up(reg, toks, G) ==
    IF G.result.kind # "none" THEN G ELSE lookup_flag(reg, toks, G)

\* case flag without the closing of the flag that is open
case_flag_mut(reg, toks, F) == looked_up(reg, toks, F)

\* case token_kind_t::flag
case_flag(reg, toks, F) ==
    looked_up(reg, toks, IF F.parse_arg # 0 THEN end_of_flag(reg, toks, F) ELSE F)

\* one iteration of the loop of lines 395-468
loop_body(reg, toks, kds, F, u) ==
    CASE kds[F.pos] = "literal" -> case_literal(reg, toks, F)
      [] kds[F.pos] = "arg"     -> case_arg(reg, toks, F, u)
      [] kds[F.pos] = "flag"    -> case_flag(reg, toks, F)

\* lines 473-477: the return once the open flag, if any, was closed into G
returned(G) ==
    IF G.result.kind # "none" THEN G
    ELSE [G EXCEPT !.result = Returned(G.remaining)]

\* lines 470-477: after the loop
after_loop(reg, toks, F) ==
    returned(IF F.parse_arg # 0 THEN end_of_flag(reg, toks, F) ELSE F)

\* the locals on entry to the loop
entry(d) == [dest |-> d, pos |-> 1, parse_arg |-> 0, remaining |-> <<>>,
             result |-> NoResult]

RECURSIVE run(_, _, _, _, _)
run(reg, toks, kds, F, u) ==
    IF F.result.kind # "none" THEN F
    ELSE IF F.pos > Len(kds) THEN after_loop(reg, toks, F)
    ELSE run(reg, toks, kds, loop_body(reg, toks, kds, F, u), u)

\* parser_t::parse as a whole: the locals and destinations when it returns
parse(reg, d, a, u) ==
    LET tk == semantic_tokenize(a)
    IN  run(reg, tk.tokens, tk.kinds, entry(d), u)

----------------------------------------------------------------------------
(* The inputs the model draws from *)

\* all strings over chars of length at most n
Strings(chars, n) == UNION {[1..k -> chars] : k \in 0..n}

\* the arguments the free vectors are made of
x_lit     == <<"x">>
five_lit  == <<"5">>
dash_lit  == <<"-">>
empty_lit == <<>>
dashdash  == <<"-", "-">>
a_flag    == <<"-", "a">>
n_flag    == <<"-", "n">>
num_flag  == <<"-", "-", "n", "u", "m">>
tag_flag  == <<"-", "-", "t", "a", "g">>
ids_flag  == <<"-", "-", "i", "d", "s">>
z_flag    == <<"-", "z">>

\* name=value as one argument
attach(name, value) == name \o <<"=">> \o value

ArgPool ==
    {x_lit, five_lit, true_sv, dash_lit, dashdash, a_flag, n_flag, num_flag,
     attach(num_flag, <<"5", "x">>), tag_flag, attach(tag_flag, x_lit), z_flag,
     attach(dash_lit, x_lit)}

\* the vectors of at most MaxArgs arguments of ArgPool
FreeVectors == Strings(ArgPool, MaxArgs)

\* --num=v for every text v over these characters, of length at most MaxValLen
ValueChars == {"-", "0", "1", "5", "x"}
NumVectors == {<<attach(num_flag, v)>> : v \in Strings(ValueChars, MaxValLen)}

\* a short-form argument -c1..cn, alone, with =5 or with =true, for every
\* c1..cn over these characters with c1 not the marker, n at most MaxCluster
ClusterChars == {"a", "b", "c", "n", "-"}
Clusters ==
    {dash_lit \o cs : cs \in {c \in Strings(ClusterChars, MaxCluster) :
                                Len(c) >= 1 /\ c[1] # "-"}}
ClusterVectors ==
    {<<c>> : c \in Clusters}
      \cup {<<attach(c, five_lit)>> : c \in Clusters}
      \cup {<<attach(c, true_sv)>> : c \in Clusters}

\* the occurrences of a multi-valued flag, each with one value, in the separated
\* form (--tag v ...) and in the attached form (--tag=v ...)
OccValues == {x_lit, five_lit, empty_lit, dash_lit, <<"a", "=", "b">>}
RECURSIVE separated(_, _)
separated(flag, vs) ==
    IF vs = <<>> THEN <<>>
    ELSE <<flag, vs[1]>> \o separated(flag, SubSeq(vs, 2, Len(vs)))
attached(flag, vs) == [i \in 1..Len(vs) |-> attach(flag, vs[i])]
OccVectors ==
    UNION {{separated(f, vs), attached(f, vs)} :
            f \in {tag_flag, ids_flag}, vs \in Strings(OccValues, MaxOcc)}

\* vectors with the terminator first, in the middle and twice
TerminatorVectors ==
    {<<dashdash, z_flag, dashdash>>, <<a_flag, dashdash, z_flag>>,
     <<z_flag, dashdash, a_flag>>, <<dashdash, attach(num_flag, <<"5", "x">>), x_lit>>}

ArgVectors ==
    FreeVectors \cup NumVectors \cup ClusterVectors \cup OccVectors \cup TerminatorVectors

\* a boolean flag alone and with an attached value, in the short and the long form
aa_flag == <<"-", "-", "a">>
BoolTexts == {<<>>, true_sv, false_sv, x_lit, <<"1">>, <<"t", "r", "u">>}
BoolVectors ==
    {<<a_flag>>, <<aa_flag>>}
      \cup {<<attach(f, v)>> : f \in {a_flag, aa_flag}, v \in BoolTexts}

\* a multi-valued flag, separated or with an attached value, followed by at most
\* MaxOcc literals and then by nothing or by a flag
LitValues == {x_lit, five_lit, true_sv, dash_lit}
MultiVectors ==
    {<<f>> \o vs \o rest :
        f \in {tag_flag, ids_flag, attach(tag_flag, x_lit), attach(ids_flag, five_lit)},
        vs \in Strings(LitValues, MaxOcc),
        rest \in {<<>>, <<a_flag>>}}

\* a flag, the terminator, and at most MaxOcc arguments after it
AfterValues == {x_lit, five_lit, z_flag, dashdash}
TerminatedVectors ==
    {<<f, dashdash>> \o vs :
        f \in {a_flag, n_flag, num_flag, tag_flag, ids_flag},
        vs \in Strings(AfterValues, MaxOcc)}

ValueVectors == BoolVectors \cup MultiVectors \cup TerminatedVectors

\* a registry as the calls flag(name, help, target) in this order leave it
RECURSIVE registered(_)
registered(calls) ==
    IF calls = <<>> THEN <<>>
    ELSE unguarded_vflag(registered(SubSeq(calls, 1, Len(calls) - 1)),
                         calls[Len(calls)][1], calls[Len(calls)][2])

Registries ==
    {registered(<< <<a_flag, "va">>, <<<<"-", "b">>, "vb">>, <<<<"-", "c">>, "vc">>,
                   <<n_flag, "count">>, <<num_flag, "count">>,
                   <<tag_flag, "tags">>, <<<<"-", "s">>, "name">>,
                   <<ids_flag, "nums">> >>),
     registered(<< <<a_flag, "count">>, <<<<"-", "-", "a">>, "va">>,
                   <<<<"-", "b">>, "tags">>, <<tag_flag, "nums">>,
                   <<num_flag, "name">> >>)}

\* the destinations before parse: as constructed, or as the caller or an earlier
\* parse left them
InitDests ==
    {[va |-> FALSE, vb |-> FALSE, vc |-> FALSE, count |-> 0, name |-> <<>>,
      tags |-> <<>>, nums |-> <<>>],
     [va |-> TRUE, vb |-> FALSE, vc |-> TRUE, count |-> 7, name |-> x_lit,
      tags |-> <<x_lit>>, nums |-> <<7>>]}

\* a registry of long-named flags, one for each kind of destination
v_flag == <<"-", "-", "v">>
str_flag == <<"-", "-", "s", "t", "r">>
LongRegistry ==
    registered(<< <<v_flag, "va">>, <<num_flag, "count">>, <<str_flag, "name">>,
                  <<tag_flag, "tags">>, <<ids_flag, "nums">> >>)

\* the destinations as constructed
FreshDests == [va |-> FALSE, vb |-> FALSE, vc |-> FALSE, count |-> 0, name |-> <<>>,
               tags |-> <<>>, nums |-> <<>>]

\* values the caller's variables can hold
Assignments ==
    {[va |-> b, vb |-> FALSE, vc |-> FALSE, count |-> n, name |-> str,
      tags |-> ts, nums |-> ns] :
        b \in BOOLEAN, n \in {-(2^7), 0, 5}, str \in {<<>>, <<"a", "=", "b">>},
        ts \in {<<>>, <<x_lit>>, <<empty_lit, dash_lit>>},
        ns \in {<<>>, <<-7, 12>>}}

\* a value as text: std::format("{}", v) of a bool, a signed char as a number, a string
RECURSIVE format_nat(_)
format_nat(n) ==
    IF n < 10 THEN <<DigitChars[n + 1]>>
    ELSE format_nat(n \div 10) \o <<DigitChars[(n % 10) + 1]>>
format(type, v) ==
    CASE type = "bool"        -> IF v THEN true_sv ELSE false_sv
      [] type = "signed char" -> IF v < 0 THEN <<"-">> \o format_nat(-v) ELSE format_nat(v)
      [] type = "string"      -> v

\* the arguments --name=value for the flag info bound to a destination that
\* holds v: one for a scalar, one for each element of a sequence
serialized_flag(info, v) ==
    LET long == <<"-", "-">> \o info.name
        type == target_type(info.target)
    IN  CASE type = "vector<string>" ->
                [k \in 1..Len(v) |-> attach(long, format("string", v[k]))]
          [] type = "vector<signed char>" ->
                [k \in 1..Len(v) |-> attach(long, format("signed char", v[k]))]
          [] OTHER -> <<attach(long, format(type, v))>>

\* the argument vector that serializes the destinations D of the registry reg
RECURSIVE serialized(_, _)
serialized(reg, D) ==
    IF reg = <<>> THEN <<>>
    ELSE serialized_flag(reg[1], D[reg[1].target]) \o serialized(Tail(reg), D)

\* the names handed to vflag: every string over these characters of length at
\* most MaxNameLen
NameChars == {"-", "=", "a", " ", "\r"}
AllNames == Strings(NameChars, MaxNameLen)

\* the names, targets and vectors of the specification that registers and parses
SomeNames == {a_flag, <<"-", "-", "a">>, n_flag, tag_flag, <<"a">>, dashdash,
              attach(a_flag, x_lit)}
SomeTargets == {"va", "count", "tags"}
SomeVectors ==
    {<<>>, <<x_lit>>, <<a_flag, true_sv>>, <<a_flag, n_flag>>, <<n_flag>>,
     <<n_flag, five_lit>>, <<n_flag, a_flag>>, <<attach(n_flag, <<"5", "x">>)>>,
     <<tag_flag, x_lit>>, <<tag_flag, a_flag>>, <<dashdash, a_flag>>,
     <<dash_lit, x_lit>>, <<z_flag>>, <<<<"-", "-", "a">>, x_lit>>}

----------------------------------------------------------------------------
(* The state machine *)

Init ==
    /\ flag_info = <<>>
    /\ thrown = NoError
    /\ dest \in InitDests
    /\ pc = "setup"
    /\ args = <<>>
    /\ dest0 = dest
    /\ tokens = <<>>
    /\ kinds = <<>>
    /\ pos = 1
    /\ parse_arg = 0
    /\ remaining = <<>>
    /\ result = NoResult
    /\ ub \in UBOutcomes

parse_locals == <<args, dest0, tokens, kinds, pos, parse_arg, remaining, result>>

\* parser_t::vflag(name, help, make_parse_arg(target))
vflag(name, t) ==
    /\ pc = "setup"
    /\ Len(flag_info) < MaxFlags
    /\ IF invalid_name(name)
       THEN /\ thrown' = Error("invalid flag name", name, "")
            /\ pc' = "thrown"
            /\ flag_info' = flag_info
       ELSE /\ thrown' = NoError
            /\ pc' = pc
            /\ flag_info' = unguarded_vflag(flag_info, name, t)
    /\ UNCHANGED <<dest, parse_locals, ub>>

\* parser_t::flag(name, help, target): flag_name_t's constructor is consteval,
\* so the call compiles only for a name that is not invalid
flag(name, t) ==
    /\ pc = "setup"
    /\ Len(flag_info) < MaxFlags
    /\ ~invalid_name(name)
    /\ thrown' = NoError
    /\ flag_info' = unguarded_vflag(flag_info, name, t)
    /\ UNCHANGED <<dest, pc, parse_locals, ub>>

\* the locals and destinations as the record the loop works on
Frame == [dest |-> dest, pos |-> pos, parse_arg |-> parse_arg,
          remaining |-> remaining, result |-> result]

Becomes(F) ==
    /\ dest' = F.dest
    /\ pos' = F.pos
    /\ parse_arg' = F.parse_arg
    /\ remaining' = F.remaining
    /\ result' = F.result
    /\ pc' = IF F.result.kind = "none" THEN "parse" ELSE "done"

\* parse(args) up to the loop: lines 368-373
parse_enter(a) ==
    /\ pc = "setup"
    /\ pc' = "parse"
    /\ args' = a
    /\ dest0' = dest
    /\ tokens' = semantic_tokenize(a).tokens
    /\ kinds' = semantic_tokenize(a).kinds
    /\ pos' = 1
    /\ parse_arg' = 0
    /\ remaining' = <<>>
    /\ result' = NoResult
    /\ UNCHANGED <<flag_info, thrown, dest, ub>>

\* one iteration of the loop
parse_step ==
    /\ pc = "parse"
    /\ pos <= Len(kinds)
    /\ LET F == loop_body(flag_info, tokens, kinds, Frame, ub) IN Becomes(F)
    /\ UNCHANGED <<flag_info, thrown, args, dest0, tokens, kinds, ub>>

\* the end of the loop and the return
parse_return ==
    /\ pc = "parse"
    /\ pos > Len(kinds)
    /\ LET F == after_loop(flag_info, tokens, Frame) IN Becomes(F)
    /\ UNCHANGED <<flag_info, thrown, args, dest0, tokens, kinds, ub>>

Next ==
    \/ \E name \in SomeNames, t \in SomeTargets : vflag(name, t)
    \/ \E name \in SomeNames, t \in SomeTargets : flag(name, t)
    \/ \E a \in SomeVectors : parse_enter(a)
    \/ parse_step
    \/ parse_return

Spec == Init /\ [][Next]_vars

\* registration alone, over every name
NextReg ==
    \/ \E name \in AllNames : vflag(name, "va")
    \/ \E name \in AllNames : flag(name, "va")

SpecReg == Init /\ [][NextReg]_vars

\* parse alone, of every vector of ArgVectors, with a registry of Registries
InitParse ==
    /\ flag_info \in Registries
    /\ thrown = NoError
    /\ dest \in InitDests
    /\ pc = "setup"
    /\ args = <<>>
    /\ dest0 = dest
    /\ tokens = <<>>
    /\ kinds = <<>>
    /\ pos = 1
    /\ parse_arg = 0
    /\ remaining = <<>>
    /\ result = NoResult
    /\ ub \in UBOutcomes

NextParse ==
    \/ \E a \in ArgVectors : parse_enter(a)
    \/ parse_step
    \/ parse_return

SpecParse == InitParse /\ [][NextParse]_vars

\* parse alone, of every vector of ValueVectors, with a registry of Registries
NextValues ==
    \/ \E a \in ValueVectors : parse_enter(a)
    \/ parse_step
    \/ parse_return

SpecValues == InitParse /\ [][NextValues]_vars

\* parse of the serialized destinations, with the registry of long-named flags:
\* of any assignment into the destinations as constructed, and of the
\* assignment the destinations hold
InitRound ==
    /\ flag_info = LongRegistry
    /\ thrown = NoError
    /\ dest \in Assignments
    /\ pc = "setup"
    /\ args = <<>>
    /\ dest0 = dest
    /\ tokens = <<>>
    /\ kinds = <<>>
    /\ pos = 1
    /\ parse_arg = 0
    /\ remaining = <<>>
    /\ result = NoResult
    /\ ub \in UBOutcomes

NextRound ==
    \/ \E D \in Assignments :
          /\ dest = FreshDests \/ dest = D
          /\ parse_enter(serialized(flag_info, D))
    \/ parse_step
    \/ parse_return

SpecRound == InitRound /\ [][NextRound]_vars

----------------------------------------------------------------------------
(* Claims *)

\* the entry a flag token resolves to, 0 when it is not registered
entry_of(token) == find_if(flag_info, token)

\* token i is a flag token that is malformed whatever follows it is bound to:
\* its name is not registered, or it is single-scalar and no value follows it
Malformed(i) ==
    /\ kinds[i] = "flag"
    /\ \/ entry_of(tokens[i]) = 0
       \/ /\ kind(flag_info[entry_of(tokens[i])].target) = "single"
          /\ (i = Len(kinds) \/ kinds[i + 1] = "flag")

\* the error of such a token
ErrorOf(i) ==
    IF entry_of(tokens[i]) = 0
    THEN Error("unknown flag", dashes(tokens[i]) \o tokens[i], "")
    ELSE Error("missing value after", dashes(tokens[i]) \o tokens[i], "")

FirstMalformed == CHOOSE i \in 1..Len(kinds) :
                    Malformed(i) /\ \A j \in 1..(i - 1) : ~Malformed(j)

\* C1: parse is fail-fast.  Once parse is over it has returned either the
\* remaining arguments or one error, never anything else; and when the vector
\* holds a malformed flag (unknown, or single-scalar without a value) it has
\* returned an error and no remaining arguments: the error of the first such
\* flag, unless a value before it could not be parsed, and then the error of
\* that value.
C1_FailFast ==
    pc = "done" =>
        /\ result.kind \in {"value", "error"}
        /\ (\E i \in 1..Len(kinds) : Malformed(i)) =>
              /\ result.kind = "error"
              /\ result.value = <<>>
              /\ \/ result.error = ErrorOf(FirstMalformed)
                 \/ /\ pos < FirstMalformed
                    /\ kinds[pos] \in {"literal", "arg"}
                    /\ result.error.msg = "cannot parse"
                    /\ result.error.text = tokens[pos]

\* no argument of a is a flag argument
NoFlagArgs(a) ==
    \A i \in 1..Len(a) : ~starts_with(a[i], "-") \/ Len(a[i]) < 2

\* C2: for an argument vector in which no argument is a flag, with any registry,
\* parse succeeds, returns all arguments unchanged and in their order, and binds
\* no destination.
C2_NoFlagsAllLiterals ==
    (pc # "setup" /\ NoFlagArgs(args)) =>
        /\ dest = dest0
        /\ pc = "parse" => remaining = SubSeq(args, 1, pos - 1)
        /\ pc = "done" => result = Returned(args)

C2_Witness ==
    /\ pc = "done"
    /\ flag_info # <<>>
    /\ args = <<dash_lit, true_sv>>
    /\ result = Returned(args)

\* a has an argument that is exactly --
HasTerminator(a) == \E i \in 1..Len(a) : a[i] = dashdash
FirstTerminator(a) ==
    CHOOSE i \in 1..Len(a) : a[i] = dashdash /\ \A j \in 1..(i - 1) : a[j] # dashdash

\* C6: the first argument that is exactly -- ends flag recognition: the tokens
\* are those of the arguments before it, no token for the -- itself, and then
\* every argument after it, verbatim and in order, as a literal; so no unknown
\* flag is ever reported for an argument after it.
C6_TerminatorEndsFlags ==
    (pc # "setup" /\ HasTerminator(args)) =>
        LET k == FirstTerminator(args)
            before == semantic_tokenize(SubSeq(args, 1, k - 1))
            after == SubSeq(args, k + 1, Len(args))
        IN  /\ tokens = before.tokens \o after
            /\ kinds = before.kinds \o Repeat("literal", Len(after))
            /\ (result.kind = "error" /\ result.error.msg = "unknown flag")
                  => pos <= Len(before.tokens)

C6_Witness ==
    /\ pc = "done"
    /\ args = <<dashdash, z_flag, dashdash>>
    /\ tokens = <<z_flag, dashdash>>
    /\ kinds = <<"literal", "literal">>
    /\ result = Returned(<<z_flag, dashdash>>)

\* x is a short-form flag argument -c1..cn or -c1..cn=v with n >= 1
IsCluster(x) == Len(x) >= 2 /\ x[1] = "-" /\ x[2] \notin {"-", "="}
\* its characters c1..cn
ClusterNames(x) == SubSeq(x, 2, Min(find(x, "="), Len(x)))
\* its =v, empty when it has none
ClusterValue(x) == IF find(x, "=") = npos THEN <<>> ELSE substr(x, find(x, "="), npos)
\* the n separate arguments -c1 -c2 ... -cn[=v]
SplitCluster(x) ==
    LET cs == ClusterNames(x)
    IN  [j \in 1..Len(cs) |->
            <<"-", cs[j]>> \o (IF j = Len(cs) THEN ClusterValue(x) ELSE <<>>)]
\* no ci is the marker
NoMarkerInCluster(x) == \A j \in 1..Len(ClusterNames(x)) : ClusterNames(x)[j] # "-"

\* a with every cluster argument that the tokenizer meets as a flag argument
\* (none after the terminator) replaced by its separate arguments; with
\* plain, only the clusters in which no ci is the marker
RECURSIVE SplitArgs(_, _)
SplitArgs(a, plain) ==
    IF a = <<>> THEN <<>>
    ELSE IF a[1] = dashdash THEN a
    ELSE IF IsCluster(a[1]) /\ (plain => NoMarkerInCluster(a[1]))
    THEN SplitCluster(a[1]) \o SplitArgs(Tail(a), plain)
    ELSE <<a[1]>> \o SplitArgs(Tail(a), plain)

\* parse of b from the destinations parse was entered with ends as this parse did
SameOutcome(b) ==
    LET o == parse(flag_info, dest0, b, ub)
    IN  o.result = result /\ o.dest = dest

\* the tokens of a single cluster argument are c1, ..., cn and then v
ClusterTokens ==
    (pc # "setup" /\ Len(args) = 1 /\ IsCluster(args[1])) =>
        LET cs == ClusterNames(args[1])
            v == IF ClusterValue(args[1]) = <<>> THEN <<>>
                 ELSE <<Tail(ClusterValue(args[1]))>>
        IN  /\ tokens = [j \in 1..Len(cs) |-> <<cs[j]>>] \o v
            /\ kinds = Repeat("flag", Len(cs)) \o Repeat("arg", Len(v))

\* every ci is a registered boolean flag and there is no =v: all are set, no literal
ClusterOfBooleans ==
    (pc = "done" /\ Len(args) = 1 /\ IsCluster(args[1])
        /\ ClusterValue(args[1]) = <<>>
        /\ \A j \in 1..Len(tokens) :
              /\ entry_of(tokens[j]) # 0
              /\ kind(flag_info[entry_of(tokens[j])].target) = "boolean") =>
        /\ result = Returned(<<>>)
        /\ \A j \in 1..Len(tokens) : dest[flag_info[entry_of(tokens[j])].target] = TRUE

\* C3 as amended: a short-form cluster argument -c1..cn[=v] in which no ci is
\* the marker yields the flag tokens c1..cn and then v, and parse ends as it
\* does for the separate arguments -c1 ... -cn[=v]  (destinations, remaining
\* arguments, error); when every ci is a registered boolean flag and there is no
\* =v, all n destinations are true and no literal is returned.
C3_ClusterAsSeparate ==
    /\ ClusterTokens
    /\ ClusterOfBooleans
    /\ pc = "done" => SameOutcome(SplitArgs(args, TRUE))

\* C3 as stated: the same for every short-form cluster argument, also one in
\* which some ci is the marker.
C3_AnyClusterAsSeparate ==
    /\ ClusterTokens
    /\ ClusterOfBooleans
    /\ pc = "done" => SameOutcome(SplitArgs(args, FALSE))

C3_Witness ==
    /\ pc = "done"
    /\ args = <<<<"-", "a", "b", "c">>>>
    /\ tokens = <<<<"a">>, <<"b">>, <<"c">>>>
    /\ ~dest0.va /\ ~dest0.vb /\ ~dest0.vc
    /\ dest.va /\ dest.vb /\ dest.vc
    /\ result = Returned(<<>>)

\* v is a numeral of the destination type: an optional minus sign and at least
\* one digit, nothing else, and its value in the type's range
numeral_value(v) ==
    IF starts_with(v, "-") THEN -digits_value(Tail(v)) ELSE digits_value(v)
is_numeral(v) ==
    LET ds == IF starts_with(v, "-") THEN Tail(v) ELSE v
    IN  /\ Len(ds) >= 1
        /\ \A i \in 1..Len(ds) : is_digit(ds[i])
        /\ in_range(numeral_value(v))

\* C4: for a flag bound to an integer destination, name=v alone succeeds exactly
\* when the whole of v is a numeral of the destination type: then the
\* destination is that number and no literal is returned; otherwise parse fails
\* saying it cannot parse v as the type.
C4_WholeNumeral ==
    (pc = "done" /\ Len(args) = 1 /\ kinds = <<"flag", "arg">>
        /\ entry_of(tokens[1]) # 0
        /\ target_type(flag_info[entry_of(tokens[1])].target) = "signed char") =>
        LET t == flag_info[entry_of(tokens[1])].target
            v == tokens[2]
        IN  /\ args[1] \in {attach(<<"-", "-">> \o tokens[1], v),
                            attach(<<"-">> \o tokens[1], v)}
            /\ IF is_numeral(v)
               THEN result = Returned(<<>>) /\ dest[t] = numeral_value(v)
               ELSE result = Failed(Error("cannot parse", v, "signed char"))

C4_Witness ==
    /\ pc = "done"
    /\ args = <<attach(num_flag, <<"5", "x">>)>>
    /\ flag_info[entry_of(<<"n", "u", "m">>)].target = "count"
    /\ result = Failed(Error("cannot parse", <<"5", "x">>, "signed char"))

\* the argument vector is flag v1 flag v2 ..., or flag=v1 flag=v2 ..., for the
\* long flag argument f
IsSeparated(a, f) ==
    /\ Len(a) % 2 = 0
    /\ \A i \in 1..Len(a) : i % 2 = 1 => a[i] = f
IsAttached(a, f) ==
    \A i \in 1..Len(a) : Len(a[i]) > Len(f) /\ SubSeq(a[i], 1, Len(f) + 1) = f \o <<"=">>
SeparatedValues(a) == [i \in 1..(Len(a) \div 2) |-> a[2 * i]]
AttachedValues(a, f) == [i \in 1..Len(a) |-> SubSeq(a[i], Len(f) + 2, Len(a[i]))]
\* a value that can be given in the separated form: it is no flag argument
IsPlainValue(v) == Len(v) < 2 \/ v[1] # "-"

\* what C5 says of the values vs given to f in either form, the other form being b
OccurrencesAppended(f, vs, b) ==
    LET t == flag_info[entry_of(strip_markers(f))].target
    IN  /\ SameOutcome(b)
        /\ result.kind = "value" =>
              /\ result.value = <<>>
              /\ Len(dest[t]) = Len(dest0[t]) + Len(vs)
        /\ target_type(t) = "vector<string>" =>
              /\ result.kind = "value"
              /\ dest[t] = dest0[t] \o vs

\* C5: for a multi-valued flag bound to a sequence destination, the values given
\* over all its occurrences are appended to the destination in the order of the
\* argument vector, and the separated form (--tag a --tag b) and the attached
\* form (--tag=a --tag=b) end with the same destinations and the same returned
\* arguments.
C5_OccurrencesInOrder ==
    pc = "done" =>
        \A f \in {tag_flag, ids_flag} :
            (/\ Len(args) >= 1
             /\ entry_of(strip_markers(f)) # 0
             /\ kind(flag_info[entry_of(strip_markers(f))].target) = "variable") =>
                /\ (IsSeparated(args, f)
                      /\ \A i \in 1..Len(SeparatedValues(args)) :
                            IsPlainValue(SeparatedValues(args)[i])) =>
                        OccurrencesAppended(f, SeparatedValues(args),
                                            attached(f, SeparatedValues(args)))
                /\ (IsAttached(args, f)
                      /\ \A i \in 1..Len(args) : IsPlainValue(AttachedValues(args, f)[i])) =>
                        OccurrencesAppended(f, AttachedValues(args, f),
                                            separated(f, AttachedValues(args, f)))

C5_Witness ==
    /\ pc = "done"
    /\ args = <<tag_flag, <<"a", "=", "b">>, tag_flag, x_lit>>
    /\ flag_info[entry_of(<<"t", "a", "g">>)].target = "tags"
    /\ dest0.tags = <<x_lit>>
    /\ dest.tags = <<x_lit, <<"a", "=", "b">>, x_lit>>
    /\ result = Returned(<<>>)

\* the flag argument a flag token is named by in an error: its name after one
\* marker when it is one character long, after two otherwise
Spelled(name) == (IF Len(name) = 1 THEN <<"-">> ELSE <<"-", "-">>) \o name

\* the dispatcher stands right after the flag token of a registered flag of kind k
JustOpened(k) ==
    /\ pc = "parse"
    /\ pos > 1
    /\ kinds[pos - 1] = "flag"
    /\ entry_of(tokens[pos - 1]) # 0
    /\ kind(flag_info[entry_of(tokens[pos - 1])].target) = k

\* C7: a single-scalar flag whose flag token is followed by another flag token,
\* or by the end of the input, makes the next step of parse fail with the
\* missing-value error that names that flag, every destination as it was.
C7_MissingValue ==
    [][(JustOpened("single") /\ (pos > Len(kinds) \/ kinds[pos] = "flag")) =>
          /\ pc' = "done"
          /\ result' = Failed(Error("missing value after", Spelled(tokens[pos - 1]), ""))
          /\ dest' = dest]_vars

C7_Witness ==
    /\ pc = "done"
    /\ args = <<num_flag, a_flag>>
    /\ kinds = <<"flag", "flag">>
    /\ pos = 2
    /\ kind(flag_info[entry_of(tokens[1])].target) = "single"
    /\ result = Failed(Error("missing value after", num_flag, ""))
    /\ dest = dest0

\* C8: a boolean flag whose flag token is followed by a literal token does not
\* consume it: the next step of parse sets the boolean destination true and no
\* other, closes the flag, and appends the literal to the remaining arguments.
C8_BooleanLeavesLiteral ==
    [][(JustOpened("boolean") /\ pos <= Len(kinds) /\ kinds[pos] = "literal") =>
          LET t == flag_info[entry_of(tokens[pos - 1])].target
          IN  /\ dest' = [dest EXCEPT ![t] = TRUE]
              /\ parse_arg' = 0
              /\ remaining' = Append(remaining, tokens[pos])
              /\ pos' = pos + 1
              /\ result' = NoResult]_vars

C8_Witness ==
    /\ pc = "done"
    /\ args = <<a_flag, true_sv>>
    /\ kinds = <<"flag", "literal">>
    /\ kind(flag_info[entry_of(tokens[1])].target) = "boolean"
    /\ ~dest0.va
    /\ dest.va
    /\ result = Returned(<<true_sv>>)

IsWhitespace(c) == c \in {" ", "\t", "\n", "\r", "\f"}
FlagName(name) ==
    /\ \/ Len(name) = 2 /\ name[1] = "-"
       \/ Len(name) >= 3 /\ name[1] = "-" /\ name[2] = "-"
    /\ name # <<"-", "-">>
    /\ \A i \in 1..Len(name) : ~IsWhitespace(name[i]) /\ name[i] # "="
\* a name without its one or two markers
Unmarked(name) == IF Len(name) = 2 THEN Tail(name) ELSE Tail(Tail(name))

\* C10: every registration call either is of a name of the FlagName grammar and
\* appends its entry, or is of a name outside the grammar and throws the
\* invalid-name error, the registry as it was.
C10_GrammarDecides ==
    [][pc = "setup" =>
          \/ /\ thrown' = NoError
             /\ \E name \in AllNames :
                   /\ FlagName(name)
                   /\ flag_info' = Append(flag_info, [name |-> Unmarked(name), target |-> "va"])
          \/ /\ thrown'.msg = "invalid flag name"
             /\ ~FlagName(thrown'.text)
             /\ flag_info' = flag_info]_vars

\* parse is over for the one argument of a registered boolean flag, alone or
\* with an attached value
BooleanAlone ==
    /\ pc = "done"
    /\ Len(args) = 1
    /\ Len(kinds) \in {1, 2}
    /\ kinds[1] = "flag"
    /\ entry_of(tokens[1]) # 0
    /\ kind(flag_info[entry_of(tokens[1])].target) = "boolean"

\* C11: a boolean flag given alone (the no-value probe), with the attached empty
\* value or with the attached text true ends true with no literal returned; with
\* the attached text false it ends false; with any other attached text parse
\* fails saying it cannot parse the text as bool.
C11_BooleanBinding ==
    BooleanAlone =>
        LET t == flag_info[entry_of(tokens[1])].target
        IN  IF Len(kinds) = 1 \/ tokens[2] \in {<<>>, true_sv}
            THEN result = Returned(<<>>) /\ dest[t] = TRUE
            ELSE IF tokens[2] = false_sv
            THEN result = Returned(<<>>) /\ dest[t] = FALSE
            ELSE result = Failed(Error("cannot parse", tokens[2], "bool"))

\* C12: the step that binds an attached value without error leaves the
\* dispatcher idle, whatever the kind of the flag; and the step at a literal that
\* follows an attached value appends the literal to the remaining arguments.
C12_AttachedCloses ==
    [][/\ (pc = "parse" /\ pos <= Len(kinds) /\ kinds[pos] = "arg"
              /\ parse_arg # 0 /\ result'.kind = "none") =>
             parse_arg' = 0
       /\ (pc = "parse" /\ pos <= Len(kinds) /\ pos > 1 /\ kinds[pos] = "literal"
              /\ kinds[pos - 1] = "arg") =>
             /\ result' = NoResult
             /\ remaining' = Append(remaining, tokens[pos])
             /\ dest' = dest]_vars

\* the error for the flag token at pos, which is not registered
UnknownHere == Failed(Error("unknown flag", Spelled(tokens[pos]), ""))

\* C13: the step at a flag token whose name is not registered ends parse. With
\* no flag open, or after a boolean flag (which is set true first) or a
\* multi-valued flag (closed, its destination as it was), the error is the
\* unknown flag error that names the token; after a single-scalar flag it is the
\* missing value error of that flag, and the unknown flag is not reported.
C13_UnknownFlag ==
    [][(pc = "parse" /\ pos <= Len(kinds) /\ kinds[pos] = "flag"
          /\ entry_of(tokens[pos]) = 0) =>
          /\ pc' = "done"
          /\ IF parse_arg = 0
             THEN result' = UnknownHere /\ dest' = dest
             ELSE LET t == flag_info[parse_arg].target
                  IN  CASE kind(t) = "single" ->
                             /\ result' = Failed(Error("missing value after",
                                                       Spelled(tokens[pos - 1]), ""))
                             /\ dest' = dest
                        [] kind(t) = "boolean" ->
                             /\ result' = UnknownHere
                             /\ dest' = [dest EXCEPT ![t] = TRUE]
                        [] kind(t) = "variable" ->
                             /\ result' = UnknownHere
                             /\ dest' = dest]_vars

C13_Witness ==
    /\ pc = "done"
    /\ args = <<a_flag, z_flag>>
    /\ tokens = <<<<"a">>, <<"z">>>>
    /\ ~dest0.va
    /\ dest.va
    /\ result = Failed(Error("unknown flag", z_flag, ""))

\* C14: unknown-flag tolerance can be had. Where the idle dispatcher stands at
\* a flag token that is not registered, the step that reports no error and
\* appends the flag's spelling, markers included, to the remaining arguments is
\* one the program can take.
C14_ToleranceAvailable ==
    (pc = "parse" /\ pos <= Len(kinds) /\ kinds[pos] = "flag"
        /\ entry_of(tokens[pos]) = 0 /\ parse_arg = 0) =>
        ENABLED (/\ parse_step
                 /\ result' = NoResult
                 /\ remaining' = Append(remaining, Spelled(tokens[pos])))

\* the assignment the argument vector serializes
Serializes(D) == args = serialized(flag_info, D)

\* C15 as stated: parse of the serialized destinations D returns no literal and
\* leaves every destination equal to D.
C15_RoundTrip ==
    pc = "done" =>
        \A D \in Assignments :
            Serializes(D) => result = Returned(<<>>) /\ dest = D

\* C15 as amended: parse of the serialized destinations D returns no literal,
\* leaves every scalar destination equal to its value in D, and leaves every
\* sequence destination as it was when parse was entered followed by its value
\* in D; so every destination equals D when the sequences were empty at entry.
C15_RoundTripAppends ==
    pc = "done" =>
        \A D \in Assignments :
            Serializes(D) =>
                /\ result = Returned(<<>>)
                /\ \A i \in 1..Len(flag_info) :
                      LET t == flag_info[i].target
                      IN  IF kind(t) = "variable"
                          THEN dest[t] = dest0[t] \o D[t]
                          ELSE dest[t] = D[t]
                /\ (dest0.tags = <<>> /\ dest0.nums = <<>>) => dest = D

C15_Witness ==
    /\ pc = "done"
    /\ dest0 = FreshDests
    /\ args = <<attach(v_flag, true_sv), attach(num_flag, <<"-", "1", "2", "8">>),
                attach(str_flag, <<"a", "=", "b">>), attach(tag_flag, empty_lit),
                attach(tag_flag, dash_lit), attach(ids_flag, <<"-", "7">>),
                attach(ids_flag, <<"1", "2">>)>>
    /\ dest = [va |-> TRUE, vb |-> FALSE, vc |-> FALSE, count |-> -(2^7),
               name |-> <<"a", "=", "b">>, tags |-> <<empty_lit, dash_lit>>,
               nums |-> <<-7, 12>>]
    /\ result = Returned(<<>>)

\* C16: every attached-value token has a flag token right before it, and the
\* dispatcher never stands at an attached-value token with no flag open.
C16_AttachedAfterFlag ==
    pc # "setup" =>
        /\ \A i \in 1..Len(kinds) :
              kinds[i] = "arg" => (i > 1 /\ kinds[i - 1] = "flag")
        /\ (pc = "parse" /\ pos <= Len(kinds) /\ kinds[pos] = "arg") => parse_arg # 0

\* the token at pos is a literal, and the tokens from j to it are the flag token
\* of a registered multi-valued flag and then literals only
LiteralOfMulti(j) ==
    /\ pc = "parse"
    /\ pos <= Len(kinds)
    /\ kinds[pos] = "literal"
    /\ j < pos
    /\ kinds[j] = "flag"
    /\ entry_of(tokens[j]) # 0
    /\ kind(flag_info[entry_of(tokens[j])].target) = "variable"
    /\ \A k \in (j + 1)..(pos - 1) : kinds[k] = "literal"

\* C17: at every literal token that follows the flag token of a multi-valued
\* flag with only literals between, the flag is still open, and the step parses
\* the literal and appends it to the end of the flag's destination, leaves the
\* remaining arguments as they are and leaves the flag open; when the literal is
\* no value of the element type the step ends parse with 'cannot parse'.
C17_MultiStaysOpen ==
    [][\A j \in 1..Len(kinds) :
          LiteralOfMulti(j) =>
              LET t == flag_info[entry_of(tokens[j])].target
                  tok == tokens[pos]
                  appended(v) == /\ result' = NoResult
                                 /\ dest' = [dest EXCEPT ![t] = Append(@, v)]
                                 /\ parse_arg' = parse_arg
                                 /\ pos' = pos + 1
              IN  /\ parse_arg = entry_of(tokens[j])
                  /\ remaining' = remaining
                  /\ IF target_type(t) = "vector<string>" THEN appended(tok)
                     ELSE IF is_numeral(tok) THEN appended(numeral_value(tok))
                     ELSE result' = Failed(Error("cannot parse", tok, "signed char"))]_vars

C17_Witness ==
    /\ pc = "done"
    /\ args = <<tag_flag, x_lit, true_sv>>
    /\ kinds = <<"flag", "literal", "literal">>
    /\ target_type(flag_info[entry_of(tokens[1])].target) = "vector<string>"
    /\ dest.tags = dest0.tags \o <<x_lit, true_sv>>
    /\ result = Returned(<<>>)

OpenAtTerminator(k) ==
    /\ pc = "done"
    /\ Len(args) >= 2
    /\ args[2] = dashdash
    /\ Len(kinds) = Len(args) - 1
    /\ kinds[1] = "flag"
    /\ entry_of(tokens[1]) # 0
    /\ kind(flag_info[entry_of(tokens[1])].target) = k
AfterTerminator == SubSeq(args, 3, Len(args))

\* what a flag with destination t open at the terminator does with rest: the
\* first argument (single-scalar) or all of them (multi-valued) are its values
TakenAfterTerminator(t, rest) ==
    LET numerals(n) == \A i \in 1..n : is_numeral(rest[i])
        cannot(v) == result = Failed(Error("cannot parse", v, "signed char"))
    IN  CASE target_type(t) = "string" ->
               IF rest = <<>>
               THEN result = Failed(Error("missing value after", args[1], ""))
               ELSE /\ dest = [dest0 EXCEPT ![t] = rest[1]]
                    /\ result = Returned(Tail(rest))
          [] target_type(t) = "signed char" ->
               IF rest = <<>>
               THEN result = Failed(Error("missing value after", args[1], ""))
               ELSE IF is_numeral(rest[1])
               THEN /\ dest = [dest0 EXCEPT ![t] = numeral_value(rest[1])]
                    /\ result = Returned(Tail(rest))
               ELSE cannot(rest[1])
          [] target_type(t) = "vector<string>" ->
               /\ dest = [dest0 EXCEPT ![t] = @ \o rest]
               /\ result = Returned(<<>>)
          [] target_type(t) = "vector<signed char>" ->
               IF numerals(Len(rest))
               THEN /\ dest = [dest0 EXCEPT ![t] =
                                  @ \o [i \in 1..Len(rest) |-> numeral_value(rest[i])]]
                    /\ result = Returned(<<>>)
               ELSE \E i \in 1..Len(rest) :
                       numerals(i - 1) /\ ~is_numeral(rest[i]) /\ cannot(rest[i])

\* C19: the terminator does not close a flag that awaits a value: when the
\* arguments are a single-scalar or multi-valued flag, the terminator and more
\* arguments, a single-scalar flag is bound to the first argument after the
\* terminator and the others are returned, and a multi-valued flag is bound to
\* all of them and none is returned.
C19_TerminatorKeepsFlagOpen ==
    (OpenAtTerminator("single") \/ OpenAtTerminator("variable")) =>
        TakenAfterTerminator(flag_info[entry_of(tokens[1])].target, AfterTerminator)

C19_Witness ==
    /\ OpenAtTerminator("variable")
    /\ args = <<tag_flag, dashdash, z_flag, dashdash>>
    /\ target_type(flag_info[entry_of(tokens[1])].target) = "vector<string>"
    /\ dest.tags = dest0.tags \o <<z_flag, dashdash>>
    /\ result = Returned(<<>>)

\* the last flag token before token i, 0 if there is none
LastFlagBefore(i) ==
    IF \E j \in 1..(i - 1) : kinds[j] = "flag"
    THEN CHOOSE j \in 1..(i - 1) :
            kinds[j] = "flag" /\ \A k \in (j + 1)..(i - 1) : kinds[k] # "flag"
    ELSE 0

\* the entry of the flag that is open where token i, a literal or an attached
\* value, stands, 0 if none is: the flag named right before it, or a
\* multi-valued flag named earlier with only values between
OpenAt(i) ==
    LET j == LastFlagBefore(i) IN
    IF j = 0 \/ entry_of(tokens[j]) = 0 THEN 0
    ELSE IF j = i - 1 \/ kind(flag_info[entry_of(tokens[j])].target) = "variable"
    THEN entry_of(tokens[j])
    ELSE 0

\* literal token i is bound as a value of a single-scalar or multi-valued flag
ConsumedLiteral(i) ==
    /\ kinds[i] = "literal"
    /\ OpenAt(i) # 0
    /\ kind(flag_info[OpenAt(i)].target) # "boolean"

\* the literal tokens among the first n that no flag consumes, in order
RECURSIVE UnconsumedLiterals(_)
UnconsumedLiterals(n) ==
    IF n = 0 THEN <<>>
    ELSE IF kinds[n] = "literal" /\ ~ConsumedLiteral(n)
    THEN Append(UnconsumedLiterals(n - 1), tokens[n])
    ELSE UnconsumedLiterals(n - 1)

\* the value tokens bound to the multi-valued destination t
BoundTo(t) ==
    {i \in 1..Len(kinds) :
        /\ kinds[i] # "flag"
        /\ OpenAt(i) # 0
        /\ flag_info[OpenAt(i)].target = t}

\* C20: when parse succeeds, the remaining arguments are, in order, exactly the
\* literal tokens that stand where no single-scalar or multi-valued flag is
\* open, each once; every other literal is a value of the flag open there, so a
\* multi-valued destination has grown by one element for each value token bound
\* to it; no flag token and no attached value is among the remaining arguments.
C20_RemainingAccounts ==
    (pc = "done" /\ result.kind = "value") =>
        /\ result.value = UnconsumedLiterals(Len(kinds))
        /\ \A t \in {"tags", "nums"} :
              Len(dest[t]) = Len(dest0[t]) + Cardinality(BoundTo(t))

C20_Witness ==
    /\ pc = "done"
    /\ args = <<num_flag, dashdash, five_lit, x_lit>>
    /\ kinds = <<"flag", "literal", "literal">>
    /\ ConsumedLiteral(2)
    /\ ~ConsumedLiteral(3)
    /\ dest.count = 5
    /\ result = Returned(<<x_lit>>)

\* the two forms of a flag of one character c, and the other form of each
ShortForm(c) == <<"-", c>>
LongForm(c) == <<"-", "-", c>>
IsOneCharFlag(a) ==
    \/ Len(a) = 2 /\ a[1] = "-" /\ a[2] \notin {"-", "="}
    \/ Len(a) = 3 /\ a[1] = "-" /\ a[2] = "-" /\ a[3] \notin {"-", "="}
OtherForm(a) == IF Len(a) = 2 THEN LongForm(a[2]) ELSE ShortForm(a[3])

\* registering either form of c stores the entry under c alone, whatever the
\* registry holds already
StoredStripped ==
    (pc = "setup" /\ Len(flag_info) < MaxFlags) =>
        \A c \in {"a", "n"}, t \in SomeTargets :
          \A name \in {ShortForm(c), LongForm(c)} :
            ENABLED (/\ vflag(name, t)
                     /\ thrown' = NoError
                     /\ flag_info' = Append(flag_info, [name |-> <<c>>, target |-> t]))

\* the open flag is the first entry stored under the last flag token
ResolvesToFirst ==
    (pc \in {"parse", "done"} /\ parse_arg # 0) =>
        /\ LastFlagBefore(pos) # 0
        /\ flag_info[parse_arg].name = tokens[LastFlagBefore(pos)]
        /\ \A k \in 1..(parse_arg - 1) : flag_info[k].name # flag_info[parse_arg].name

\* a parse whose first argument is one form of a one-character flag ends as
\* the parse with the other form in its place
EitherFormActivates ==
    (pc = "done" /\ Len(args) >= 1 /\ IsOneCharFlag(args[1])) =>
        SameOutcome(<<OtherForm(args[1])>> \o Tail(args))

\* C21: names are stored without their markers and looked up by the stored
\* text alone: registering -x or --x appends an entry named x even when one is
\* there already, the argument --x does what the argument -x does, and the flag
\* that a flag token opens is the first entry stored under that token.
C21_SharedNamespace ==
    /\ StoredStripped
    /\ ResolvesToFirst
    /\ EitherFormActivates

C21_Witness ==
    /\ pc = "done"
    /\ Len(flag_info) = 2
    /\ flag_info[1] = [name |-> <<"a">>, target |-> "va"]
    /\ flag_info[2] = [name |-> <<"a">>, target |-> "count"]
    /\ args = <<LongForm("a"), x_lit>>
    /\ tokens = <<<<"a">>, x_lit>>
    /\ ~dest0.va
    /\ dest = [dest0 EXCEPT !.va = TRUE]
    /\ result = Returned(<<x_lit>>)

====
